---- MODULE Spec2Model ----
(***************************************************************************)
(* rando-photo (src/main.rs): an HTTP service with two selector routes.    *)
(* GET /random redirects to a random *.jpg under images_path/final_glob,   *)
(* GET /newest to the most recently created *.jpg under                    *)
(* images_path/fast_glob.  The model covers the filesystem the selectors   *)
(* read, the glob walk, the two selectors, the relative-path computation   *)
(* of the redirect, and the listener's lifecycle (graceful shutdown).      *)
(*                                                                         *)
(* A path is a record [abs, comps]: whether it is absolute and its         *)
(* components.  A file of the filesystem is named by its absolute,         *)
(* normalised component sequence.  A string built with "/" separators      *)
(* (the Location header) is the sequence of its segments after the         *)
(* leading "/", so "/images//x" is <<"images", "", "x">>.                  *)
(***************************************************************************)
EXTENDS Integers, Sequences, FiniteSets, TLC

VARIABLES args, fs, unreadable, listener, inflight, last

vars == <<args, fs, unreadable, listener, inflight, last>>

(***************************************************************************)
(* Bounds                                                                  *)
(***************************************************************************)
\* creation timestamps are 1..MaxTime
MaxTime == 2
\* at most MaxInflight requests are in flight at once
MaxInflight == 2

Times == 1..MaxTime
\* created() of a file whose creation time cannot be read
NoTime == 0

(***************************************************************************)
(* The directory tree and the names in it                                  *)
(***************************************************************************)
\* the process's working directory, against which relative paths resolve
Cwd == <<"data">>

Dirs ==
    { <<>>, <<"data">>, <<"data", "images">>, <<"data", "images", "2024">>,
      <<"data", "other">> }

\* the files that may exist; c.png is there for the *.jpg filter to reject
AllFiles ==
    { <<"data", "images", "2024", "B.JPG">>,
      <<"data", "images", "2024", "a.jpg">>,
      <<"data", "images", "2024", "c.png">>,
      <<"data", "other", "a.jpg">> }

\* the files the environment never touches
StaticFiles == { <<"data", "images", "2024", "c.png">> }

\* the directories whose listing may be denied
GuardedDirs == { <<"data", "images", "2024">> }

\* file names in byte order (digits < upper case < lower case)
NameOrder == <<"2024", "B.JPG", "a.jpg", "c.png", "data", "images", "other">>

Rank(n) == CHOOSE i \in 1..Len(NameOrder) : NameOrder[i] = n

\* str::to_lowercase on the names of the tree
ToLower(n) == IF n = "B.JPG" THEN "b.jpg" ELSE n

\* the pattern "*": any file name
MatchesAny(n) == ToLower(n) \in { "a.jpg", "b.jpg", "c.png" }

\* the file-name pattern "*.jpg" under MatchOptions { case_sensitive: false }
MatchesJpg(n) == ToLower(n) \in { "a.jpg", "b.jpg" }

(***************************************************************************)
(* Paths                                                                   *)
(***************************************************************************)
Path(a, c) == [abs |-> a, comps |-> c]

\* PathBuf::join: an absolute right-hand side replaces the left-hand side
PathJoin(p, q) == IF q.abs THEN q ELSE Path(p.abs, p.comps \o q.comps)

RECURSIVE Normalize(_, _)
Normalize(acc, comps) ==
    IF comps = <<>> THEN acc
    ELSE IF Head(comps) = "." THEN Normalize(acc, Tail(comps))
    ELSE IF Head(comps) = ".."
         THEN Normalize(IF acc = <<>> THEN acc ELSE SubSeq(acc, 1, Len(acc) - 1),
                        Tail(comps))
    ELSE Normalize(acc \o <<Head(comps)>>, Tail(comps))

\* the filesystem object a path names: what the kernel resolves it to
Resolve(p) == Normalize(IF p.abs THEN <<>> ELSE Cwd, p.comps)

(***************************************************************************)
(* The filesystem                                                          *)
(* fs maps each file that exists to its creation time (NoTime when the     *)
(* time cannot be read); unreadable holds the directories whose listing    *)
(* fails.                                                                  *)
(***************************************************************************)
\* a stale listing: every file that ever existed
ListedStale == AllFiles

\* the files the directory listings of a walk return: those that exist now
Listed == DOMAIN fs

\* x.metadata().unwrap().created().unwrap(): NoTime stands for either Err
Created(f) == IF f \in DOMAIN fs THEN fs[f] ELSE NoTime

\* the names a listing of dir returns, given the files that exist
Children(files, dir) ==
    { n \in { NameOrder[i] : i \in 1..Len(NameOrder) } :
        LET child == dir \o <<n>> IN child \in Dirs \/ child \in files }

\* a directory's entries as the walk visits them: ascending by file name
SortedNames(S) ==
    [i \in 1..Cardinality(S) |->
        CHOOSE x \in S : Cardinality({ y \in S : Rank(y) < Rank(x) }) = i - 1]

(***************************************************************************)
(* glob_with(path/**/*.jpg, case-insensitive): the items the iterator      *)
(* yields, in order.  An item is Ok(path) or Err; a directory that cannot  *)
(* be listed yields one Err.  A yielded path is the pattern's literal      *)
(* prefix as written (".." included) followed by the names walked.         *)
(***************************************************************************)
GlobOk(p) == [ok |-> TRUE, path |-> p]
GlobErr(p) == [ok |-> FALSE, path |-> p]

\* (a singleton set binds a value that is used several times)
RECURSIVE Walk(_, _, _, _)
RECURSIVE WalkKids(_, _, _, _, _)
Walk(files, denied, dir, p) ==
    IF dir \in denied THEN <<GlobErr(p)>>
    ELSE CHOOSE items \in { WalkKids(files, denied, dir, p, kids) :
                              kids \in { SortedNames(Children(files, dir)) } } : TRUE

WalkKids(files, denied, dir, p, kids) ==
    IF kids = <<>> THEN <<>>
    ELSE CHOOSE items \in
           { (IF child \in Dirs THEN Walk(files, denied, child, q)
              ELSE IF MatchesJpg(q.comps[Len(q.comps)]) THEN <<GlobOk(q)>>
              ELSE <<>>)
             \o WalkKids(files, denied, dir, p, rest) :
               child \in { dir \o <<Head(kids)>> },
               q \in { Path(p.abs, p.comps \o <<Head(kids)>>) },
               rest \in { Tail(kids) } } : TRUE

Glob(p) ==
    IF Resolve(p) \in Dirs THEN Walk(Listed, unreadable, Resolve(p), p) ELSE <<>>

(***************************************************************************)
(* The selectors.  A result is Some(path), None, or Panic (an unwrap of    *)
(* an Err or of a None unwinds the handler).                               *)
(***************************************************************************)
Some(p) == [tag |-> "Some", path |-> p]
None == [tag |-> "None", path |-> Path(FALSE, <<>>)]
Panic == [tag |-> "Panic", path |-> Path(FALSE, <<>>)]

\* all_images.map(|x| x.unwrap()).collect(): defined when no item is an Err
Collected(items) == [i \in 1..Len(items) |-> items[i].path]

HasErr(items) == \E i \in 1..Len(items) : ~items[i].ok

\* the sort key of max_by_key
Key(image) == Created(Resolve(image))

\* Iterator::max_by_key: the elements are paired with their keys and the
\* pairs reduced, the accumulator being kept only when its key is strictly
\* greater than the next pair's
Keyed(images) == [i \in 1..Len(images) |-> [key |-> Key(images[i]), x |-> images[i]]]

\* min_by_key: the accumulator is kept unless its key is greater
RECURSIVE ReduceMin(_, _)
ReduceMin(best, rest) ==
    IF rest = <<>> THEN best
    ELSE ReduceMin(IF best.key > Head(rest).key THEN Head(rest) ELSE best, Tail(rest))

\* a reduction that keeps the accumulator on equal keys
RECURSIVE ReduceFirst(_, _)
ReduceFirst(best, rest) ==
    IF rest = <<>> THEN best
    ELSE ReduceFirst(IF best.key >= Head(rest).key THEN best ELSE Head(rest), Tail(rest))

RECURSIVE Reduce(_, _)
Reduce(best, rest) ==
    IF rest = <<>> THEN best
    ELSE Reduce(IF best.key > Head(rest).key THEN best ELSE Head(rest), Tail(rest))

MaxByKey(images) == Reduce(Head(Keyed(images)), Tail(Keyed(images))).x

\* slice::choose: any element, None of an empty slice
choose(images) ==
    IF images = <<>> THEN { None } ELSE { Some(images[i]) : i \in 1..Len(images) }

\* the set of results random_image(path) can return
random_image(path) ==
    UNION { IF HasErr(items) THEN { Panic } ELSE choose(Collected(items)) :
              items \in { Glob(path) } }

newest_image(path) ==
    CHOOSE image \in
      { IF HasErr(items) THEN Panic
        ELSE IF items = <<>> THEN None
        ELSE IF \E i \in 1..Len(items) : Key(items[i].path) = NoTime THEN Panic
        ELSE Some(MaxByKey(Collected(items))) :
          items \in { Glob(path) } } : TRUE

(***************************************************************************)
(* pathdiff::diff_paths(path, base): Some(relative path) or None           *)
(***************************************************************************)
NoPath == [some |-> FALSE, path |-> Path(FALSE, <<>>)]
SomePath(p) == [some |-> TRUE, path |-> p]

RECURSIVE Parents(_)
Parents(n) == IF n = 0 THEN <<>> ELSE <<"..">> \o Parents(n - 1)

\* Path::components(): interior "." components are dropped
RECURSIVE Components(_)
Components(c) ==
    IF c = <<>> THEN <<>>
    ELSE IF Head(c) = "." /\ Tail(c) # <<>> THEN Components(Tail(c))
    ELSE <<Head(c)>> \o Components(Tail(c))

RECURSIVE DiffLoop(_, _, _)
DiffLoop(a, b, comps) ==
    IF a = <<>> /\ b = <<>> THEN SomePath(Path(FALSE, comps))
    ELSE IF b = <<>> THEN SomePath(Path(FALSE, comps \o a))
    ELSE IF a = <<>> THEN DiffLoop(a, Tail(b), comps \o <<"..">>)
    ELSE IF comps = <<>> /\ Head(a) = Head(b) THEN DiffLoop(Tail(a), Tail(b), comps)
    ELSE IF Head(b) = "." THEN DiffLoop(Tail(a), Tail(b), comps \o <<Head(a)>>)
    ELSE IF Head(b) = ".." THEN NoPath
    ELSE SomePath(Path(FALSE, comps \o Parents(Len(b)) \o a))

diff_paths(path, base) ==
    IF path.abs # base.abs
    THEN IF path.abs THEN SomePath(path) ELSE NoPath
    ELSE DiffLoop(Components(path.comps), Components(base.comps), <<>>)

(***************************************************************************)
(* Responses                                                               *)
(***************************************************************************)
Redirect(loc) == [kind |-> "redirect", status |-> 307, location |-> loc, body |-> ""]
\* a 404 without the body
NotFoundNoBody == [kind |-> "not_found", status |-> 404, location |-> <<>>, body |-> ""]

NotFound == [kind |-> "not_found", status |-> 404, location |-> <<>>, body |-> "No image found"]
\* the handler unwound: the connection is dropped without a response
Aborted == [kind |-> "aborted", status |-> 0, location |-> <<>>, body |-> ""]
\* no request has been handled yet
NoResponse == [kind |-> "none", status |-> 0, location |-> <<>>, body |-> ""]

\* to_string_lossy of a path, as segments: an absolute path starts with "/"
PathSegments(p) == (IF p.abs THEN <<"">> ELSE <<>>) \o p.comps

\* format!("/images/{}", rel)
Location(rel) == <<"images">> \o PathSegments(rel)

\* what random_image_handler and newest_image_handler answer once their
\* selector returned
image_response(image) ==
    IF image.tag = "Panic" THEN Aborted
    ELSE IF image.tag = "Some"
    THEN LET d == diff_paths(image.path, args.images_path)
         IN  IF d.some THEN Redirect(Location(d.path)) ELSE Aborted
    ELSE NotFound

\* /random searching the pattern of /newest
random_path_fast == PathJoin(args.images_path, args.fast_glob)

\* the search path each route hands to its selector
random_path == PathJoin(args.images_path, args.final_glob)
newest_path == PathJoin(args.images_path, args.fast_glob)

(***************************************************************************)
(* Configuration (Args): fixed at startup                                  *)
(***************************************************************************)
Roots == { Path(TRUE, <<"data", "images">>), Path(FALSE, <<"images">>) }

Globs == { Path(FALSE, <<"2024">>), Path(FALSE, <<"..", "other">>), Path(TRUE, <<"data">>) }

\* the two routes are given different patterns, so that which pattern a
\* route searches shows in its response
ArgsSet ==
    { a \in [images_path : Roots, fast_glob : Globs, final_glob : Globs] :
        a.fast_glob # a.final_glob }

(***************************************************************************)
(* The state machine                                                       *)
(***************************************************************************)
Routes == { "random", "newest" }

InflightCount == inflight["random"] + inflight["newest"]

\* a panic that takes the process down
ListenerAfterAbort(l) == "exited"

\* a panic in a handler unwinds its connection task only: the runtime
\* catches it and the accept loop goes on
ListenerAfterPanic(l) == l

Init ==
    /\ args \in ArgsSet
    /\ fs = [f \in StaticFiles |-> 1]
    /\ unreadable = {}
    /\ listener = "running"
    /\ inflight = [r \in Routes |-> 0]
    /\ last = [route |-> "none", image |-> None, resp |-> NoResponse]

\* the environment creates a file
AddFile ==
    /\ listener # "exited"
    /\ \E f \in AllFiles \ DOMAIN fs, t \in Times \cup {NoTime} :
         fs' = [g \in DOMAIN fs \cup {f} |-> IF g = f THEN t ELSE fs[g]]
    /\ UNCHANGED <<args, unreadable, listener, inflight, last>>

\* the environment removes a file
RemoveFile ==
    /\ listener # "exited"
    /\ \E f \in DOMAIN fs \ StaticFiles : fs' = [g \in DOMAIN fs \ {f} |-> fs[g]]
    /\ UNCHANGED <<args, unreadable, listener, inflight, last>>

\* the environment denies or grants the listing of a directory
Chmod ==
    /\ listener # "exited"
    /\ \E d \in GuardedDirs :
         unreadable' = IF d \in unreadable THEN unreadable \ {d} ELSE unreadable \cup {d}
    /\ UNCHANGED <<args, fs, listener, inflight, last>>

\* axum::serve accepts a connection and routes its request
Accept ==
    /\ listener = "running"
    /\ InflightCount < MaxInflight
    /\ \E r \in Routes : inflight' = [inflight EXCEPT ![r] = @ + 1]
    /\ UNCHANGED <<args, fs, unreadable, listener, last>>

\* a handler ran to its end: last is what it printed (the selector's result)
\* and what it answered
Finish(r, image) ==
    /\ inflight' = [inflight EXCEPT ![r] = @ - 1]
    /\ last' = [route |-> r, image |-> image, resp |-> image_response(image)]
    /\ listener' = IF image_response(image).kind = "aborted"
                   THEN ListenerAfterPanic(listener) ELSE listener
    /\ UNCHANGED <<args, fs, unreadable>>

\* random_image_handler
HandleRandom ==
    /\ listener # "exited"
    /\ inflight["random"] > 0
    /\ \E image \in random_image(random_path) : Finish("random", image)

\* newest_image_handler
HandleNewest ==
    /\ listener # "exited"
    /\ inflight["newest"] > 0
    /\ \E image \in { newest_image(newest_path) } : Finish("newest", image)

\* shutdown_signal() resolves on Ctrl+C or SIGTERM
Signal ==
    /\ listener = "running"
    /\ \E sig \in { "ctrl_c", "terminate" } : listener' = "shutting_down"
    /\ UNCHANGED <<args, fs, unreadable, inflight, last>>

\* a shutdown that does not wait for the requests in flight
ExitAtOnce ==
    /\ listener = "shutting_down"
    /\ listener' = "exited"
    /\ UNCHANGED <<args, fs, unreadable, inflight, last>>

\* the serve future resolves once no request is in flight; main returns
Exit ==
    /\ listener = "shutting_down"
    /\ InflightCount = 0
    /\ listener' = "exited"
    /\ UNCHANGED <<args, fs, unreadable, inflight, last>>

Next ==
    \/ AddFile
    \/ RemoveFile
    \/ Chmod
    \/ Accept
    \/ HandleRandom
    \/ HandleNewest
    \/ Signal
    \/ Exit

Spec == Init /\ [][Next]_vars

(***************************************************************************)
(* The lifecycle alone: the server over a filesystem that stays as it      *)
(* is, under the runtime's scheduling.  The runtime polls every spawned    *)
(* connection task and the serve future, so a handler that can run does    *)
(* run, and the process exits once its shutdown can complete.              *)
(***************************************************************************)
\* the filesystems the lifecycle is run over: only the static file, or
\* every file with the same creation time (readable or not)
Snapshots ==
    { [f \in StaticFiles |-> 1] }
        \cup { [f \in AllFiles |-> t] : t \in Times \cup {NoTime} }

InitServing ==
    /\ args \in ArgsSet
    /\ fs \in Snapshots
    /\ unreadable \in SUBSET GuardedDirs
    /\ listener = "running"
    /\ inflight = [r \in Routes |-> 0]
    /\ last = [route |-> "none", image |-> None, resp |-> NoResponse]

NextServing ==
    \/ Accept
    \/ HandleRandom
    \/ HandleNewest
    \/ Signal
    \/ Exit

FairSpec ==
    /\ InitServing
    /\ [][NextServing]_vars
    /\ WF_vars(HandleRandom)
    /\ WF_vars(HandleNewest)
    /\ WF_vars(Exit)

(***************************************************************************)
(* What the properties speak of, stated apart from the walk above          *)
(***************************************************************************)
\* s is an initial part of t: the file or directory t lies in or is s
IsPrefix(s, t) == Len(s) <= Len(t) /\ SubSeq(t, 1, Len(s)) = s

\* the glob a route is configured with
GlobOf(r) == IF r = "random" THEN args.final_glob ELSE args.fast_glob

\* the directory a route's pattern is rooted at
SearchDir(r) == Resolve(PathJoin(args.images_path, GlobOf(r)))

\* the expansion of a route's pattern meets no read error, so that it
\* collects a matched set
WalkCompletes(r) == \A d \in unreadable : ~IsPrefix(SearchDir(r), d)

\* a file name with the extension jpg in any letter case
IsJpgName(n) == n \in { "a.jpg", "B.JPG" }

\* the matched set of a route: the *.jpg files at any depth under its
\* search directory (the set a completed expansion collects)
MatchedSet(r) ==
    { f \in DOMAIN fs :
        /\ IsPrefix(SearchDir(r), f)
        /\ Len(f) > Len(SearchDir(r))
        /\ IsJpgName(f[Len(f)]) }

AllReadable(r) == \A f \in MatchedSet(r) : fs[f] # NoTime

\* this step is a handler of route r running to its end
Handled(r) == inflight'[r] = inflight[r] - 1

\* the images root as a directory
RootDir == Resolve(args.images_path)

\* the file a selector result names
FileOf(image) == Resolve(image.path)

\* the files of the matched set with the greatest creation time
Newest(r) == { f \in MatchedSet(r) : \A g \in MatchedSet(r) : fs[g] <= fs[f] }

\* the position of a file in the enumeration of route r's pattern
PositionOf(r, f) ==
    LET images == Collected(Glob(PathJoin(args.images_path, GlobOf(r))))
    IN  CHOOSE i \in 1..Len(images) : Resolve(images[i]) = f

C3_NewestIsMaximal ==
    [][(/\ Handled("newest")
        /\ WalkCompletes("newest")
        /\ MatchedSet("newest") # {}
        /\ AllReadable("newest"))
            => /\ last'.image.tag = "Some"
               /\ FileOf(last'.image) \in MatchedSet("newest")
               /\ \A g \in MatchedSet("newest") : fs[g] <= fs[FileOf(last'.image)]]_vars

\* /newest chose among files of different creation times, the older one
\* coming later in the enumeration
C3_Witness ==
    /\ last.route = "newest"
    /\ last.image.tag = "Some"
    /\ WalkCompletes("newest")
    /\ AllReadable("newest")
    /\ FileOf(last.image) \in Newest("newest")
    /\ \E g \in MatchedSet("newest") :
         /\ fs[g] < fs[FileOf(last.image)]
         /\ PositionOf("newest", g) > PositionOf("newest", FileOf(last.image))

(***************************************************************************)
(* C4                                                                      *)
(***************************************************************************)
\* C4: when the matched set of /random is non-empty, every result
\* random_image can return is Some(f) with f a member of the set; None is
\* not among them.
C4_RandomIsMember ==
    (WalkCompletes("random") /\ MatchedSet("random") # {})
        => \A image \in random_image(PathJoin(args.images_path, args.final_glob)) :
             /\ image.tag = "Some"
             /\ FileOf(image) \in MatchedSet("random")

\* /random chose among several files
C4_Witness ==
    /\ last.route = "random"
    /\ last.image.tag = "Some"
    /\ WalkCompletes("random")
    /\ Cardinality(MatchedSet("random")) >= 2
    /\ FileOf(last.image) \in MatchedSet("random")

(***************************************************************************)
(* C5                                                                      *)
(***************************************************************************)
\* C5: a hit whose selected file p lies under the images root r is
\* answered with the Location "/images/" followed by the path of p
\* relative to r.
C5_LocationIsRelative ==
    [][\A r \in Routes :
        (/\ Handled(r)
         /\ last'.image.tag = "Some"
         /\ IsPrefix(RootDir, FileOf(last'.image)))
            => /\ last'.resp.kind = "redirect"
               /\ last'.resp.location =
                    <<"images">> \o SubSeq(FileOf(last'.image), Len(RootDir) + 1,
                                           Len(FileOf(last'.image)))]_vars

C8_UnderRoot ==
    last.resp.kind = "redirect"
        => /\ IsPrefix(RootDir, FileOf(last.image))
           /\ \A i \in 2..Len(last.resp.location) : last.resp.location[i] \notin { "..", "" }

(***************************************************************************)
(* C9                                                                      *)
(***************************************************************************)
\* C9 (as stated): among the files sharing the maximal creation time,
\* newest_image returns the first in enumeration order.
C9_Original ==
    [][(/\ Handled("newest")
        /\ WalkCompletes("newest")
        /\ MatchedSet("newest") # {}
        /\ AllReadable("newest"))
            => /\ FileOf(last'.image) \in Newest("newest")
               /\ \A g \in Newest("newest") :
                    PositionOf("newest", FileOf(last'.image)) <= PositionOf("newest", g)]_vars

\* C9 (amended): among the files sharing the maximal creation time,
\* newest_image returns the last in enumeration order.
C9_LastOfMaximal ==
    [][(/\ Handled("newest")
        /\ WalkCompletes("newest")
        /\ MatchedSet("newest") # {}
        /\ AllReadable("newest"))
            => /\ FileOf(last'.image) \in Newest("newest")
               /\ \A g \in Newest("newest") :
                    PositionOf("newest", FileOf(last'.image)) >= PositionOf("newest", g)]_vars

\* /newest chose among several files of the same maximal creation time
C9_Witness ==
    /\ last.route = "newest"
    /\ last.image.tag = "Some"
    /\ WalkCompletes("newest")
    /\ AllReadable("newest")
    /\ FileOf(last.image) \in Newest("newest")
    /\ Cardinality(Newest("newest")) >= 2
    /\ Cardinality(MatchedSet("newest")) > Cardinality(Newest("newest"))

====
